---- MODULE Spec2Model ----
(***************************************************************************)
(* Model of SlackNotifications/slack.py and SlackNotifications/exceptions.py *)
(*                                                                         *)
(* A Python str is a sequence of tokens.  A token is either one character  *)
(* (the characters of references, bodies, decimal digits, ...) or one      *)
(* literal piece of a format string, kept whole.  Concatenation is \o and  *)
(* "x in s" is IsSubstring(x, s).  A dict is the sequence of its items in  *)
(* insertion order, with unique keys.                                      *)
(***************************************************************************)
EXTENDS Integers, Sequences, FiniteSets, TLC

VARIABLES
    pc,             \* "new": before __init__; "ready": constructed; "failed": __init__ raised
    config,         \* the SlackNotificationServiceConfig handed to __init__
    send_to_slack,  \* self.send_to_slack
    verbose,        \* self.verbose
    channels,       \* self.channels: dict reference -> WebhookClient
    created,        \* the WebhookClient objects constructed, in order
    last            \* the last call made on the service: its arguments and what it came to

vars == <<pc, config, send_to_slack, verbose, channels, created, last>>

----------------------------------------------------------------------------
(* Bounds of the model *)

\* the longest channel list a configuration holds
MaxChannels == 3
\* the longest item list given to a list formatter
MaxItems == 4

----------------------------------------------------------------------------
(* Strings *)

\* Code points of the characters that references are made of (str ordering).
Ord(c) ==
    CASE c = "A" -> 65
      [] c = "a" -> 97
      [] c = "b" -> 98
      [] c = "u" -> 117
      [] c = "v" -> 118

Range(s) == {s[i] : i \in 1..Len(s)}

\* needle in hay
IsSubstring(needle, hay) ==
    \E i \in 0..(Len(hay) - Len(needle)) :
        \A j \in 1..Len(needle) : hay[i + j] = needle[j]

\* a < b for two str values made of characters Ord knows
RECURSIVE StrLess(_, _)
StrLess(a, b) ==
    IF b = <<>> THEN FALSE
    ELSE IF a = <<>> THEN TRUE
    ELSE IF a[1] # b[1] THEN Ord(a[1]) < Ord(b[1])
    ELSE StrLess(Tail(a), Tail(b))

\* sep.join(parts)
RECURSIVE join(_, _)
join(sep, parts) ==
    IF parts = <<>> THEN <<>>
    ELSE IF Len(parts) = 1 THEN parts[1]
    ELSE parts[1] \o sep \o join(sep, Tail(parts))

\* sorted(names): ascending, stable
RECURSIVE InsertSorted(_, _)
InsertSorted(x, s) ==
    IF s = <<>> THEN <<x>>
    ELSE IF StrLess(x, s[1]) THEN <<x>> \o s
    ELSE <<s[1]>> \o InsertSorted(x, Tail(s))

RECURSIVE sorted(_)
sorted(names) ==
    IF names = <<>> THEN <<>>
    ELSE InsertSorted(names[Len(names)], sorted(SubSeq(names, 1, Len(names) - 1)))

Digit(d) ==
    CASE d = 0 -> "0" [] d = 1 -> "1" [] d = 2 -> "2" [] d = 3 -> "3" [] d = 4 -> "4"
      [] d = 5 -> "5" [] d = 6 -> "6" [] d = 7 -> "7" [] d = 8 -> "8" [] d = 9 -> "9"

\* str(n) of an int n >= 0, as an f-string formats it
RECURSIVE IntToStr(_)
IntToStr(n) ==
    IF n < 10 THEN <<Digit(n)>>
    ELSE IntToStr(n \div 10) \o <<Digit(n % 10)>>

----------------------------------------------------------------------------
(* Inputs *)

\* Channel references: case matters ("a" is not "A"), one is a prefix of another.
References == {<<"a">>, <<"A">>, <<"a", "b">>}

WebhookUrls == {<<"u">>, <<"v">>}

\* SlackChannelConfig
ChannelConfigs == [channel_reference : References, channel_webhook_url : WebhookUrls]

RECURSIVE SeqsUpTo(_, _)
SeqsUpTo(S, n) ==
    IF n = 0 THEN {<<>>}
    ELSE LET shorter == SeqsUpTo(S, n - 1)
         IN  shorter \cup {Append(s, x) : s \in {t \in shorter : Len(t) = n - 1}, x \in S}

\* SlackNotificationServiceConfig
ServiceConfigs ==
    [channels : SeqsUpTo(ChannelConfigs, MaxChannels), send_to_slack : BOOLEAN, verbose : BOOLEAN]

StatusCodes == {200, 201, 204, 500}

Bodies == {<<"o", "k">>, <<"e">>}

\* What WebhookClient.send returns (slack_sdk's WebhookResponse): the transport decides.
Responses == [status_code : StatusCodes, body : Bodies]

NoResponse == [status_code |-> 0, body |-> <<>>]

NoHandle == [id |-> 0, url |-> <<>>]

----------------------------------------------------------------------------
(* Message blocks *)

divider_block == [type |-> "divider"]

section_block(text) == [type |-> "section", text |-> [type |-> "mrkdwn", text |-> text]]

generic_message_blocks(title, message) ==
    << [type |-> "section",
        text |-> [type |-> "mrkdwn", text |-> <<"*">> \o title \o <<"*", "\n">> \o message]] >>

Payloads == { <<divider_block>>, generic_message_blocks(<<"a">>, <<"b">>) }

\* repr of a str without quote characters: quoted, a line feed written as \n
RECURSIVE ReprChars(_)
ReprChars(s) ==
    IF s = <<>> THEN <<>>
    ELSE (IF s[1] = "\n" THEN <<"\\", "n">> ELSE <<s[1]>>) \o ReprChars(Tail(s))

ReprStr(s) == <<"'">> \o ReprChars(s) \o <<"'">>

ReprBlock(b) ==
    IF b.type = "divider" THEN <<"{'type': 'divider'}">>
    ELSE <<"{'type': 'section', 'text': {'type': 'mrkdwn', 'text': ">>
         \o ReprStr(b.text.text) \o <<"}}">>

\* f"{blocks}": the repr of the list
ReprBlocks(blocks) ==
    <<"[">> \o join(<<", ">>, [i \in 1..Len(blocks) |-> ReprBlock(blocks[i])]) \o <<"]">>

----------------------------------------------------------------------------
(* exceptions.py: each operator is str() of the exception *)

\* A defect: the exception lists the names in input order.
SlackNotificationChannelDuplicateReferenceException_unsorted(channel_names) ==
    <<"Duplicate referecne for slack notification channel references=[">>
    \o join(<<", ">>, channel_names) \o <<"]">>

SlackNotificationChannelDuplicateReferenceException(channel_names) ==
    <<"Duplicate referecne for slack notification channel references=[">>
    \o join(<<", ">>, sorted(channel_names)) \o <<"]">>

SlackNotificationChannelNotFoundException(channel_name) ==
    <<"Slack notification channel '">> \o channel_name \o <<"' not found.">>

SlackNotificationSendFailedException(channel_name, status_code, response_body) ==
    <<"Failed to send Slack notification to channel '">> \o channel_name
    \o <<"'. ", "Status Code: ">> \o IntToStr(status_code)
    \o <<", Response: ">> \o response_body

----------------------------------------------------------------------------
(* dict *)

DictKeys(d) == [i \in 1..Len(d) |-> d[i].key]

DictHas(d, k) == \E i \in 1..Len(d) : d[i].key = k

\* d.get(k), for a key d has
DictGet(d, k) == d[CHOOSE i \in 1..Len(d) : d[i].key = k].value

\* d[k] = v: a known key keeps its place and takes the new value
DictPut(d, k, v) ==
    IF DictHas(d, k)
    THEN [i \in 1..Len(d) |-> IF d[i].key = k THEN [key |-> k, value |-> v] ELSE d[i]]
    ELSE Append(d, [key |-> k, value |-> v])

----------------------------------------------------------------------------
(* SlackNotificationService *)

\* What a call on the service comes to: the exception it raised ("none": it
\* returned) with its str(), the WebhookClient.send calls it made and the
\* logger.info lines it emitted, in order.
Returned(sends, lines) == [exc |-> "none", msg |-> <<>>, sends |-> sends, lines |-> lines]

Raised(exc, msg, sends, lines) == [exc |-> exc, msg |-> msg, sends |-> sends, lines |-> lines]

\* WebhookClient(url): the n-th client constructed
WebhookClient(n, url) == [id |-> n, url |-> url]

\* {cc.channel_reference: WebhookClient(cc.channel_webhook_url) for cc in channel_configs}
RECURSIVE ChannelsComprehension(_, _, _)
ChannelsComprehension(channel_configs, d, made) ==
    IF channel_configs = <<>> THEN [channels |-> d, created |-> made]
    ELSE LET cc == Head(channel_configs)
             client == WebhookClient(Len(made) + 1, cc.channel_webhook_url)
         IN  ChannelsComprehension(Tail(channel_configs),
                                   DictPut(d, cc.channel_reference, client),
                                   Append(made, client))

InitializedLine(chs) ==
    <<"SlackNotificationService initialized with the following channels: ">>
    \o join(<<", ">>, DictKeys(chs))

\* A defect: the clients are constructed and stored before the references are checked.
load_channel_webhooks_checks_late(self_verbose, channel_configs) ==
    LET channel_refs == [i \in 1..Len(channel_configs) |-> channel_configs[i].channel_reference]
        built == ChannelsComprehension(channel_configs, <<>>, <<>>)
    IN  IF Len(channel_refs) # Cardinality(Range(channel_refs))
        THEN [exc |-> "SlackNotificationChannelDuplicateReferenceException",
              msg |-> SlackNotificationChannelDuplicateReferenceException(channel_refs),
              assigned |-> TRUE, channels |-> built.channels, created |-> built.created,
              lines |-> <<>>]
        ELSE [exc |-> "none", msg |-> <<>>,
              assigned |-> TRUE, channels |-> built.channels, created |-> built.created,
              lines |-> IF self_verbose THEN <<InitializedLine(built.channels)>> ELSE <<>>]

\* A defect: every client is bound to the first entry's URL.
load_channel_webhooks_first_url(self_verbose, channel_configs) ==
    LET channel_refs == [i \in 1..Len(channel_configs) |-> channel_configs[i].channel_reference]
        same == [i \in 1..Len(channel_configs) |->
                    [channel_reference |-> channel_configs[i].channel_reference,
                     channel_webhook_url |-> channel_configs[1].channel_webhook_url]]
        built == ChannelsComprehension(same, <<>>, <<>>)
    IN  IF Len(channel_refs) # Cardinality(Range(channel_refs))
        THEN [exc |-> "SlackNotificationChannelDuplicateReferenceException",
              msg |-> SlackNotificationChannelDuplicateReferenceException(channel_refs),
              assigned |-> FALSE, channels |-> <<>>, created |-> <<>>, lines |-> <<>>]
        ELSE [exc |-> "none", msg |-> <<>>,
              assigned |-> TRUE, channels |-> built.channels, created |-> built.created,
              lines |-> IF self_verbose THEN <<InitializedLine(built.channels)>> ELSE <<>>]

\* assigned: whether self.channels was assigned before the method ended
load_channel_webhooks(self_verbose, channel_configs) ==
    LET channel_refs == [i \in 1..Len(channel_configs) |-> channel_configs[i].channel_reference]
        built == ChannelsComprehension(channel_configs, <<>>, <<>>)
    IN  IF Len(channel_refs) # Cardinality(Range(channel_refs))
        THEN [exc |-> "SlackNotificationChannelDuplicateReferenceException",
              msg |-> SlackNotificationChannelDuplicateReferenceException(channel_refs),
              assigned |-> FALSE, channels |-> <<>>, created |-> <<>>, lines |-> <<>>]
        ELSE [exc |-> "none", msg |-> <<>>,
              assigned |-> TRUE, channels |-> built.channels, created |-> built.created,
              lines |-> IF self_verbose THEN <<InitializedLine(built.channels)>> ELSE <<>>]

\* A defect: an unknown reference falls back to the first channel.
get_webhook_falls_back(self_channels, channel_reference) ==
    IF DictHas(self_channels, channel_reference)
    THEN [exc |-> "none", msg |-> <<>>, value |-> DictGet(self_channels, channel_reference)]
    ELSE IF self_channels # <<>>
    THEN [exc |-> "none", msg |-> <<>>, value |-> self_channels[1].value]
    ELSE [exc |-> "SlackNotificationChannelNotFoundException",
          msg |-> SlackNotificationChannelNotFoundException(channel_reference),
          value |-> NoHandle]

get_webhook(self_channels, channel_reference) ==
    IF DictHas(self_channels, channel_reference)
    THEN [exc |-> "none", msg |-> <<>>, value |-> DictGet(self_channels, channel_reference)]
    ELSE [exc |-> "SlackNotificationChannelNotFoundException",
          msg |-> SlackNotificationChannelNotFoundException(channel_reference),
          value |-> NoHandle]

SentLine(reference, response) ==
    <<"Message sent successfully to ">> \o reference \o <<" channel. Slack response:", " ">>
    \o IntToStr(response.status_code) \o <<" - ">> \o response.body

\* A defect: every 2xx status counts as success.
send_message_to_slack_any_2xx(self_channels, self_verbose, reference, blocks, response) ==
    LET webhook == get_webhook(self_channels, reference)
        call == [handle |-> webhook.value, blocks |-> blocks]
    IN  IF webhook.exc # "none" THEN Raised(webhook.exc, webhook.msg, <<>>, <<>>)
        ELSE IF response.status_code \notin 200..299
        THEN Raised("SlackNotificationSendFailedException",
                    SlackNotificationSendFailedException(
                        reference, response.status_code, response.body),
                    <<call>>, <<>>)
        ELSE Returned(<<call>>, IF self_verbose THEN <<SentLine(reference, response)>> ELSE <<>>)

\* A defect: the message goes to every configured channel.
send_message_to_slack_broadcast(self_channels, self_verbose, reference, blocks, response) ==
    LET webhook == get_webhook(self_channels, reference)
        calls == [i \in 1..Len(self_channels) |->
                     [handle |-> self_channels[i].value, blocks |-> blocks]]
    IN  IF webhook.exc # "none" THEN Raised(webhook.exc, webhook.msg, <<>>, <<>>)
        ELSE IF response.status_code # 200
        THEN Raised("SlackNotificationSendFailedException",
                    SlackNotificationSendFailedException(
                        reference, response.status_code, response.body),
                    calls, <<>>)
        ELSE Returned(calls, IF self_verbose THEN <<SentLine(reference, response)>> ELSE <<>>)

\* A defect: a failed send is tried once more before the exception is raised.
send_message_to_slack_retries(self_channels, self_verbose, reference, blocks, response) ==
    LET webhook == get_webhook(self_channels, reference)
        call == [handle |-> webhook.value, blocks |-> blocks]
    IN  IF webhook.exc # "none" THEN Raised(webhook.exc, webhook.msg, <<>>, <<>>)
        ELSE IF response.status_code # 200
        THEN Raised("SlackNotificationSendFailedException",
                    SlackNotificationSendFailedException(
                        reference, response.status_code, response.body),
                    <<call, call>>, <<>>)
        ELSE Returned(<<call>>, IF self_verbose THEN <<SentLine(reference, response)>> ELSE <<>>)

\* A defect: the send is made on the looked-up value before the lookup is checked.
send_message_to_slack_sends_first(self_channels, self_verbose, reference, blocks, response) ==
    LET webhook == get_webhook(self_channels, reference)
        call == [handle |-> webhook.value, blocks |-> blocks]
    IN  IF webhook.exc # "none" THEN Raised(webhook.exc, webhook.msg, <<call>>, <<>>)
        ELSE IF response.status_code # 200
        THEN Raised("SlackNotificationSendFailedException",
                    SlackNotificationSendFailedException(
                        reference, response.status_code, response.body),
                    <<call>>, <<>>)
        ELSE Returned(<<call>>, IF self_verbose THEN <<SentLine(reference, response)>> ELSE <<>>)

\* response: what the one webhook.send call returns
send_message_to_slack(self_channels, self_verbose, reference, blocks, response) ==
    LET webhook == get_webhook(self_channels, reference)
        call == [handle |-> webhook.value, blocks |-> blocks]
    IN  IF webhook.exc # "none" THEN Raised(webhook.exc, webhook.msg, <<>>, <<>>)
        ELSE IF response.status_code # 200
        THEN Raised("SlackNotificationSendFailedException",
                    SlackNotificationSendFailedException(
                        reference, response.status_code, response.body),
                    <<call>>, <<>>)
        ELSE Returned(<<call>>, IF self_verbose THEN <<SentLine(reference, response)>> ELSE <<>>)

DummyLine(reference, blocks) ==
    <<"[DUMMY SLACK MESSAGE]", " ">> \o reference \o <<" : ">> \o ReprBlocks(blocks)

\* A defect: the dry run logs the reference without the payload.
send_dummy_message_no_payload(reference, blocks) ==
    Returned(<<>>, << <<"[DUMMY SLACK MESSAGE]", " ">> \o reference >>)

send_dummy_message(reference, blocks) == Returned(<<>>, <<DummyLine(reference, blocks)>>)

\* A defect: the dry-run line is logged for a real send too.
send_message_always_logs(self_channels, self_send_to_slack, self_verbose, reference, blocks, response) ==
    IF self_send_to_slack
    THEN LET sent == send_message_to_slack(self_channels, self_verbose, reference, blocks,
                                           response)
         IN  [sent EXCEPT !.lines = <<DummyLine(reference, blocks)>> \o @]
    ELSE send_dummy_message(reference, blocks)

send_message(self_channels, self_send_to_slack, self_verbose, reference, blocks, response) ==
    IF self_send_to_slack
    THEN send_message_to_slack(self_channels, self_verbose, reference, blocks, response)
    ELSE send_dummy_message(reference, blocks)

\* The prefix of f"<prefix>{item}" in list_items, character by character as the
\* source file holds it: U+00E2, U+20AC, U+00A2, space.
ListItemPrefix == <<"U+00E2", "U+20AC", "U+00A2", " ">>

list_items(items) ==
    join(<<"\n">>, [i \in 1..Len(items) |-> ListItemPrefix \o items[i]])

----------------------------------------------------------------------------
(* The service as a state machine: one action per call a caller can make.   *)
(* The service keeps send_to_slack, verbose and channels; the transport     *)
(* calls and log lines of a call are its outputs, recorded with the call.   *)

ItemStrings == {<<>>, <<"a">>, <<"a", "b">>}

\* The record of a call: its arguments, the response the transport gives to a
\* send during the call (NoResponse for a call that takes no transport), the
\* exception it raised ("none": it returned) with its str(), what it returned,
\* the WebhookClient.send calls it made and the logger.info lines it emitted,
\* in order.
Call(op, reference, blocks, response, items, exc, msg, retHandle, retStr, sends, lines) ==
    [op |-> op, reference |-> reference, blocks |-> blocks, response |-> response,
     items |-> items, exc |-> exc, msg |-> msg, retHandle |-> retHandle, retStr |-> retStr,
     sends |-> sends, lines |-> lines]

NoCall == Call("none", <<>>, <<>>, NoResponse, <<>>, "none", <<>>, NoHandle, <<>>, <<>>, <<>>)

Init ==
    /\ pc = "new"
    /\ config \in ServiceConfigs
    /\ send_to_slack = FALSE
    /\ verbose = FALSE
    /\ channels = <<>>
    /\ created = <<>>
    /\ last = NoCall

\* SlackNotificationService(config)
Construct ==
    /\ pc = "new"
    /\ LET r == load_channel_webhooks(config.verbose, config.channels)
       IN  /\ send_to_slack' = config.send_to_slack
           /\ verbose' = config.verbose
           /\ channels' = IF r.assigned THEN r.channels ELSE channels
           /\ created' = created \o r.created
           /\ pc' = IF r.exc = "none" THEN "ready" ELSE "failed"
           /\ last' = Call("__init__", <<>>, <<>>, NoResponse, <<>>, r.exc, r.msg, NoHandle,
                           <<>>, <<>>, r.lines)
    /\ UNCHANGED config

\* service.get_webhook(reference)
GetWebhook(reference) ==
    /\ pc = "ready"
    /\ LET r == get_webhook(channels, reference)
       IN  last' = Call("get_webhook", reference, <<>>, NoResponse, <<>>, r.exc, r.msg, r.value,
                        <<>>, <<>>, <<>>)
    /\ UNCHANGED <<pc, config, send_to_slack, verbose, channels, created>>

\* The effect of a sending call that came to r
Sent(op, reference, blocks, response, r) ==
    /\ last' = Call(op, reference, blocks, response, <<>>, r.exc, r.msg, NoHandle, <<>>,
                    r.sends, r.lines)
    /\ UNCHANGED <<pc, config, send_to_slack, verbose, channels, created>>

\* service.send_message_to_slack(reference, blocks)
SendMessageToSlack(reference, blocks, response) ==
    /\ pc = "ready"
    /\ Sent("send_message_to_slack", reference, blocks, response,
            send_message_to_slack(channels, verbose, reference, blocks, response))

\* service.send_dummy_message(reference, blocks)
SendDummyMessage(reference, blocks) ==
    /\ pc = "ready"
    /\ Sent("send_dummy_message", reference, blocks, NoResponse,
            send_dummy_message(reference, blocks))

\* service.send_message(reference, blocks)
SendMessage(reference, blocks, response) ==
    /\ pc = "ready"
    /\ Sent("send_message", reference, blocks, response,
            send_message(channels, send_to_slack, verbose, reference, blocks, response))

\* service.list_items(items)
ListItems(items) ==
    /\ pc = "ready"
    /\ last' = Call("list_items", <<>>, <<>>, NoResponse, items, "none", <<>>, NoHandle,
                    list_items(items), <<>>, <<>>)
    /\ UNCHANGED <<pc, config, send_to_slack, verbose, channels, created>>

Next ==
    \/ Construct
    \/ \E reference \in References : GetWebhook(reference)
    \/ \E reference \in References, blocks \in Payloads, response \in Responses :
           SendMessageToSlack(reference, blocks, response)
    \/ \E reference \in References, blocks \in Payloads :
           SendDummyMessage(reference, blocks)
    \/ \E reference \in References, blocks \in Payloads, response \in Responses :
           SendMessage(reference, blocks, response)

Spec == Init /\ [][Next]_vars

\* The formatters read nothing of the service: they are checked on a service
\* constructed from a configuration without channels.
FormatInit ==
    /\ pc = "ready"
    /\ config = [channels |-> <<>>, send_to_slack |-> TRUE, verbose |-> FALSE]
    /\ send_to_slack = TRUE
    /\ verbose = FALSE
    /\ channels = <<>>
    /\ created = <<>>
    /\ last = Call("__init__", <<>>, <<>>, NoResponse, <<>>, "none", <<>>, NoHandle, <<>>, <<>>, <<>>)

FormatNext == \E items \in SeqsUpTo(ItemStrings, MaxItems) : ListItems(items)

FormatSpec == FormatInit /\ [][FormatNext]_vars

----------------------------------------------------------------------------
(* Properties *)

ConfigReferences == [i \in 1..Len(config.channels) |-> config.channels[i].channel_reference]

\* reference is one of the configuration's references
Configured(reference) == reference \in Range(ConfigReferences)

\* handle is the client __init__ constructed for the configuration entry named
\* reference, from that entry's URL
BoundTo(reference, handle) ==
    \E i \in 1..Len(config.channels) :
        /\ config.channels[i].channel_reference = reference
        /\ i <= Len(created)
        /\ handle = created[i]
        /\ handle.url = config.channels[i].channel_webhook_url

DryRunMarker == <<"[DUMMY SLACK MESSAGE]">>

\* C1: send_message_to_slack to a configured reference returns normally exactly
\* when the transport answers status 200; on any other status, 201 and 204
\* included, it raises SlackNotificationSendFailedException, whose text holds
\* the reference, the status code in decimal and the response body.
C1_DeliverSucceedsIffStatus200 ==
    (last.op = "send_message_to_slack" /\ Configured(last.reference)) =>
        /\ (last.exc = "none") <=> (last.response.status_code = 200)
        /\ (last.response.status_code # 200) =>
              /\ last.exc = "SlackNotificationSendFailedException"
              /\ IsSubstring(last.reference, last.msg)
              /\ IsSubstring(IntToStr(last.response.status_code), last.msg)
              /\ IsSubstring(last.response.body, last.msg)

\* C1 witness: a send to a configured reference was answered 204 and raised.
C1_Witness ==
    /\ last.op = "send_message_to_slack"
    /\ Configured(last.reference)
    /\ last.response.status_code = 204
    /\ last.exc = "SlackNotificationSendFailedException"

\* C2: send_message_to_slack(r, blocks) to a configured reference r whose
\* transport answers 200 returns normally, having made exactly one send call:
\* on the client bound to r, with the given blocks, and none on another client.
C2_DeliverSendsOnceToBoundTransport ==
    (/\ last.op = "send_message_to_slack"
     /\ Configured(last.reference)
     /\ last.response.status_code = 200) =>
        /\ last.exc = "none"
        /\ Len(last.sends) = 1
        /\ \A i \in 1..Len(last.sends) :
              /\ BoundTo(last.reference, last.sends[i].handle)
              /\ last.sends[i].blocks = last.blocks

\* C2 witness: a successful send on a service that holds another channel too.
C2_Witness ==
    /\ last.op = "send_message_to_slack"
    /\ Configured(last.reference)
    /\ last.response.status_code = 200
    /\ last.exc = "none"
    /\ Len(last.sends) = 1
    /\ Len(channels) >= 2

\* C3: send_message with send_to_slack false makes no send call and raises
\* nothing, whether or not the reference is configured, and logs exactly one
\* line, which holds the dry-run marker, the reference and the payload's text.
C3_DryRunNeverSendsNeverFails ==
    (last.op = "send_message" /\ ~send_to_slack) =>
        /\ last.sends = <<>>
        /\ last.exc = "none"
        /\ Len(last.lines) = 1
        /\ IsSubstring(DryRunMarker, last.lines[1])
        /\ IsSubstring(last.reference, last.lines[1])
        /\ IsSubstring(ReprBlocks(last.blocks), last.lines[1])

\* C3 witness: a dry run to a reference the service does not hold.
C3_Witness ==
    /\ last.op = "send_message"
    /\ ~send_to_slack
    /\ ~Configured(last.reference)
    /\ Len(last.lines) = 1

\* C4 as claimed: send_message_to_slack makes exactly one send call when
\* send_to_slack is true and none when it is false.
C4_DeliverCallsFollowSendEnabled ==
    (last.op = "send_message_to_slack") =>
        Len(last.sends) = (IF send_to_slack THEN 1 ELSE 0)

\* C4 amended: send_message_to_slack makes exactly one send call when the
\* reference is configured, whatever send_to_slack is, and none when it is not;
\* send_message makes exactly one when send_to_slack is true and the reference
\* is configured, and none otherwise.
C4_CallsFollowReferenceAndEntryPoint ==
    /\ (last.op = "send_message_to_slack") =>
          Len(last.sends) = (IF Configured(last.reference) THEN 1 ELSE 0)
    /\ (last.op = "send_message") =>
          Len(last.sends) = (IF send_to_slack /\ Configured(last.reference) THEN 1 ELSE 0)

\* C4 witness: send_message_to_slack made its one send call with send_to_slack false.
C4_Witness ==
    /\ last.op = "send_message_to_slack"
    /\ ~send_to_slack
    /\ Len(last.sends) = 1
    /\ last.response.status_code = 500

\* s is in ascending str order
IsAscending(s) == \A i \in 1..Len(s), j \in 1..Len(s) : i < j => ~StrLess(s[j], s[i])

\* s holds the elements of t, each as often as t does
IsRearrangement(s, t) ==
    /\ Len(s) = Len(t)
    /\ \E f \in [1..Len(t) -> 1..Len(t)] :
          /\ \A i \in 1..Len(t), j \in 1..Len(t) : f[i] = f[j] => i = j
          /\ \A i \in 1..Len(t) : s[i] = t[f[i]]

HasDuplicate(s) == \E i \in 1..Len(s), j \in 1..Len(s) : i # j /\ s[i] = s[j]

\* C5: constructing the service from a configuration in which a reference
\* occurs more than once raises
\* SlackNotificationChannelDuplicateReferenceException, whose text holds every
\* reference of the input, repeated ones as often as they occur, in ascending
\* order and joined by ", ".
C5_DuplicateRejectedWithSortedNames ==
    (pc # "new" /\ HasDuplicate(ConfigReferences)) =>
        /\ pc = "failed"
        /\ last.op = "__init__"
        /\ last.exc = "SlackNotificationChannelDuplicateReferenceException"
        /\ \E s \in [1..Len(ConfigReferences) -> Range(ConfigReferences)] :
              /\ IsRearrangement(s, ConfigReferences)
              /\ IsAscending(s)
              /\ IsSubstring(join(<<", ">>, s), last.msg)

\* C5 witness: construction failed on three entries given out of order, one of
\* them named once.
C5_Witness ==
    /\ pc = "failed"
    /\ ConfigReferences = << <<"a", "b">>, <<"A">>, <<"a", "b">> >>
    /\ last.exc = "SlackNotificationChannelDuplicateReferenceException"

\* C6: when construction fails on a duplicate reference no WebhookClient has
\* been constructed and self.channels holds no mapping.
C6_DuplicateFailsBeforeAnyHandle ==
    (pc = "failed") =>
        /\ last.exc = "SlackNotificationChannelDuplicateReferenceException"
        /\ created = <<>>
        /\ channels = <<>>

\* C6 witness: construction failed on a configuration with a duplicate.
C6_Witness ==
    /\ pc = "failed"
    /\ HasDuplicate(ConfigReferences)
    /\ Len(config.channels) = 3

\* C7: constructing the service from a configuration whose references are
\* pairwise distinct succeeds, constructs exactly one WebhookClient per entry
\* from that entry's URL, maps each entry's reference to that client, and the
\* keys of self.channels are exactly the input's references.
C7_UniqueReferencesBuildOneHandleEach ==
    (pc # "new" /\ ~HasDuplicate(ConfigReferences)) =>
        /\ pc = "ready"
        /\ Len(created) = Len(config.channels)
        /\ \A i \in 1..Len(created), j \in 1..Len(created) : created[i] = created[j] => i = j
        /\ \A i \in 1..Len(config.channels) :
              /\ i <= Len(created)
              /\ created[i].url = config.channels[i].channel_webhook_url
              /\ \E k \in 1..Len(channels) :
                    /\ channels[k].key = config.channels[i].channel_reference
                    /\ channels[k].value = created[i]
        /\ Len(channels) = Len(config.channels)
        /\ Range(DictKeys(channels)) = Range(ConfigReferences)

\* C7 witness: a service constructed from three entries that do not all share a URL.
C7_Witness ==
    /\ pc = "ready"
    /\ Len(config.channels) = 3
    /\ Len(created) = 3
    /\ created[1].url # created[3].url

\* C8: get_webhook returns the client construction bound to the reference when
\* the reference is configured, and otherwise raises
\* SlackNotificationChannelNotFoundException, whose text holds the requested
\* reference.
C8_ResolveReturnsBoundHandleOrNotFound ==
    (last.op = "get_webhook") =>
        IF Configured(last.reference)
        THEN /\ last.exc = "none"
             /\ BoundTo(last.reference, last.retHandle)
        ELSE /\ last.exc = "SlackNotificationChannelNotFoundException"
             /\ IsSubstring(last.reference, last.msg)

\* C8 witness: "A" was asked of a service that holds "a" and was not found.
C8_Witness ==
    /\ last.op = "get_webhook"
    /\ last.reference = <<"A">>
    /\ Configured(<<"a">>)
    /\ last.exc = "SlackNotificationChannelNotFoundException"

\* C9: send_message with send_to_slack true comes to exactly what
\* send_message_to_slack comes to for the same reference, blocks and transport
\* response: the same send calls, the same return or exception with the same
\* text, the same log lines, none of them a dry-run line.
C9_DispatchEnabledIsDeliver ==
    (last.op = "send_message" /\ send_to_slack) =>
        LET d == send_message_to_slack(channels, verbose, last.reference, last.blocks,
                                       last.response)
        IN  /\ last.exc = d.exc
            /\ last.msg = d.msg
            /\ last.sends = d.sends
            /\ last.lines = d.lines
            /\ \A i \in 1..Len(last.lines) : ~IsSubstring(DryRunMarker, last.lines[i])

\* C9 witness: an enabled, verbose send_message succeeded and logged its line.
C9_Witness ==
    /\ last.op = "send_message"
    /\ send_to_slack
    /\ last.exc = "none"
    /\ Len(last.sends) = 1
    /\ Len(last.lines) = 1

\* The bullet glyph U+2022
Bullet == "U+2022"

\* C10: list_items returns the items in input order joined by a line feed,
\* each prefixed with the one glyph U+2022 and one space, and the empty string
\* for no items.
C10_ListItemsBulletPrefix ==
    (last.op = "list_items") =>
        last.retStr = join(<<"\n">>, [i \in 1..Len(last.items) |-> <<Bullet, " ">> \o last.items[i]])


\* C11: send_message_to_slack with a reference that is not configured raises
\* SlackNotificationChannelNotFoundException having made no send call on any
\* client and logged no line (so no success line), and the step leaves
\* self.channels, self.send_to_slack and self.verbose as they were.
C11_UnknownReferenceFailsBeforeTransport ==
    [][ (last'.op = "send_message_to_slack" /\ ~Configured(last'.reference)) =>
            /\ last'.exc = "SlackNotificationChannelNotFoundException"
            /\ IsSubstring(last'.reference, last'.msg)
            /\ last'.sends = <<>>
            /\ last'.lines = <<>>
            /\ channels' = channels
            /\ send_to_slack' = send_to_slack
            /\ verbose' = verbose ]_vars

\* C11 witness: a verbose, enabled service that holds "a" was asked to send to
\* "A" and raised not-found.
C11_Witness ==
    /\ last.op = "send_message_to_slack"
    /\ last.reference = <<"A">>
    /\ Configured(<<"a">>)
    /\ ~Configured(<<"A">>)
    /\ verbose
    /\ send_to_slack
    /\ last.response.status_code = 200
    /\ last.exc = "SlackNotificationChannelNotFoundException"

====
